---- MODULE Spec2Model ----
(***************************************************************************)
(* Model of server/scripts/extract_pdf_text.py: a command-line shim that   *)
(* calls pdfminer's extract_text on one path, turns the outcome into a     *)
(* result dict, prints it as one JSON line and exits with 0 or 1.          *)
(*                                                                         *)
(* Python strings are sequences of one-character strings.  Python values   *)
(* that meet in one dict (None, bool, int, str) are tagged records, so     *)
(* that None, False, 0 and "" stay four different values.                  *)
(***************************************************************************)
EXTENDS Integers, Sequences, FiniteSets, TLC

VARIABLES argv, pc, pdf_path, text, e, result, stdout, exit_status, calls

vars == <<argv, pc, pdf_path, text, e, result, stdout, exit_status, calls>>

(***************************************************************************)
(* Bounds of the explored inputs.                                          *)
(***************************************************************************)
MaxArgs == 2
MaxTextLen == 3
MaxMsgLen == 1

(***************************************************************************)
(* Python values.                                                          *)
(***************************************************************************)
PyNone == [type |-> "NoneType"]
PyBool(b) == [type |-> "bool", val |-> b]
PyInt(n) == [type |-> "int", val |-> n]
PyStr(s) == [type |-> "str", val |-> s]
Unbound == [type |-> "unbound"]

\* Truth value of an object in a boolean context ("not text").
Truthy(v) ==
  CASE v.type = "NoneType" -> FALSE
    [] v.type = "bool" -> v.val
    [] v.type = "int" -> v.val # 0
    [] v.type = "str" -> v.val # <<>>

\* Characters str.strip() removes when called without an argument (the ASCII
\* whitespace that a TLA+ string can hold; "\f" ends every pdfminer page).
Whitespace == {" ", "\t", "\n", "\r", "\f"}

RECURSIVE lstrip(_)
lstrip(s) ==
  IF s = <<>> THEN s
  ELSE IF Head(s) \in Whitespace THEN lstrip(Tail(s)) ELSE s

RECURSIVE rstrip(_)
rstrip(s) ==
  IF s = <<>> THEN s
  ELSE IF s[Len(s)] \in Whitespace THEN rstrip(SubSeq(s, 1, Len(s) - 1)) ELSE s

\* Variant: only the leading whitespace is removed.
strip_LeftOnly(s) == lstrip(s)

strip(s) == rstrip(lstrip(s))

\* len() of a str.
len(s) == Len(s)

\* str(e) of an exception: its single argument, or "" when it has none.
str(exc) == IF exc.args = <<>> THEN <<>> ELSE exc.args[1]

(***************************************************************************)
(* The fixed messages of the script.                                       *)
(***************************************************************************)
NoTextMsg ==
  <<"N", "o", " ", "t", "e", "x", "t", " ", "c", "o", "n", "t", "e", "n",
    "t", " ", "f", "o", "u", "n", "d", " ", "i", "n", " ", "P", "D", "F">>

UsageMsg ==
  <<"U", "s", "a", "g", "e", ":", " ", "p", "y", "t", "h", "o", "n", " ",
    "e", "x", "t", "r", "a", "c", "t", "_", "p", "d", "f", "_", "t", "e",
    "x", "t", ".", "p", "y", " ", "<", "p", "d", "f", "_", "f", "i", "l",
    "e", "_", "p", "a", "t", "h", ">">>

FailedPrefix ==
  <<"P", "D", "F", " ", "e", "x", "t", "r", "a", "c", "t", "i", "o", "n",
    " ", "f", "a", "i", "l", "e", "d", ":", " ">>

(***************************************************************************)
(* The result dicts (a dict is a function from its keys).                  *)
(***************************************************************************)
\* Variant: the usage dict carries a length like the success dict.
UsageResult_WithLength ==
  [success |-> PyBool(FALSE), error |-> PyStr(UsageMsg), text |-> PyStr(<<>>),
   length |-> PyInt(0)]

UsageResult ==
  [success |-> PyBool(FALSE), error |-> PyStr(UsageMsg), text |-> PyStr(<<>>)]

EmptyResult ==
  [success |-> PyBool(FALSE), error |-> PyStr(NoTextMsg), text |-> PyStr(<<>>)]

SuccessResult(cleaned_text) ==
  [success |-> PyBool(TRUE), text |-> PyStr(cleaned_text),
   length |-> PyInt(len(cleaned_text)), error |-> PyNone]

\* Variant: the underlying message is left out.
FailureResult_NoMessage(exc) ==
  [success |-> PyBool(FALSE), error |-> PyStr(FailedPrefix),
   text |-> PyStr(<<>>)]

\* Variant: the underlying message is reported without the prefix.
FailureResult_NoPrefix(exc) ==
  [success |-> PyBool(FALSE), error |-> PyStr(str(exc)),
   text |-> PyStr(<<>>)]

FailureResult(exc) ==
  [success |-> PyBool(FALSE), error |-> PyStr(FailedPrefix \o str(exc)),
   text |-> PyStr(<<>>)]

\* Variant: "if not text", whitespace-only text passes.
IsBlank_EmptyOnly(t) == ~Truthy(t)

\* "if not text or not text.strip()"
IsBlank(t) == ~Truthy(t) \/ ~Truthy(PyStr(strip(t.val)))

\* extract_pdf_text after extract_text has returned t.
ResultOnReturn(t) ==
  IF IsBlank(t) THEN EmptyResult ELSE SuccessResult(strip(t.val))

\* Variant: the exit code ignores the result.
ExitCode_AlwaysZero(r) == 0

\* "0 if result["success"] else 1"
ExitCode(r) == IF Truthy(r["success"]) THEN 0 ELSE 1

\* Variant: "len(sys.argv) < 2", extra arguments are accepted.
WrongArgCount_TooFewOnly(av) == Len(av) < 2

\* "len(sys.argv) != 2"
WrongArgCount(av) == Len(av) # 2

(***************************************************************************)
(* json.dumps of a dict: the keys are kept, None becomes null, True and    *)
(* False become true and false, int a number and str a string.             *)
(***************************************************************************)
JsonValue(v) ==
  CASE v.type = "NoneType" -> [json |-> "null"]
    [] v.type = "bool" -> [json |-> IF v.val THEN "true" ELSE "false"]
    [] v.type = "int" -> [json |-> "number", val |-> v.val]
    [] v.type = "str" -> [json |-> "string", val |-> v.val]

json_dumps(d) == [k \in DOMAIN d |-> JsonValue(d[k])]

(***************************************************************************)
(* Inputs: the argument vector, and what extract_text does.                *)
(***************************************************************************)
ScriptName == "extract_pdf_text.py"
Paths == {"a.pdf", "b.pdf"}

SeqsUpTo(S, n) == UNION {[1..k -> S] : k \in 0..n}

ArgvSet == {<<ScriptName>> \o a : a \in SeqsUpTo(Paths, MaxArgs)}

\* "\f" is what pdfminer writes at the end of every page.
TextChars == {" ", "\f", "a", "b"}

\* extract_text returns a str; the code also provides for None.
ReturnValues == {PyNone} \cup {PyStr(s) : s \in SeqsUpTo(TextChars, MaxTextLen)}

MsgChars == {"x", " "}

\* Exceptions without an argument, with a short message, and with a message
\* that repeats one of the script's own texts.
Exceptions ==
  {[type |-> "Exception", args |-> <<>>]}
    \cup {[type |-> "Exception", args |-> <<m>>] :
            m \in SeqsUpTo(MsgChars, MaxMsgLen)
                    \cup {NoTextMsg, UsageMsg, FailedPrefix}}

(***************************************************************************)
(* The program.                                                            *)
(***************************************************************************)
Init ==
  /\ argv \in ArgvSet
  /\ pc = "main"
  /\ pdf_path = Unbound
  /\ text = Unbound
  /\ e = Unbound
  /\ result = Unbound
  /\ stdout = <<>>
  /\ exit_status = <<>>
  /\ calls = 0

\* main, line 56 with a wrong argument count: build the usage dict.
MainUsage ==
  /\ pc = "main"
  /\ WrongArgCount(argv)
  /\ result' = UsageResult
  /\ pc' = "usage_print"
  /\ UNCHANGED <<argv, pdf_path, text, e, stdout, exit_status, calls>>

\* main, line 62.
MainUsagePrint ==
  /\ pc = "usage_print"
  /\ stdout' = Append(stdout, json_dumps(result))
  /\ pc' = "usage_exit"
  /\ UNCHANGED <<argv, pdf_path, text, e, result, exit_status, calls>>

\* main, line 63.
MainUsageExit ==
  /\ pc = "usage_exit"
  /\ exit_status' = <<1>>
  /\ pc' = "exited"
  /\ UNCHANGED <<argv, pdf_path, text, e, result, stdout, calls>>

\* main, lines 65-66, and extract_pdf_text up to the call of extract_text.
MainCallExtract ==
  /\ pc = "main"
  /\ ~WrongArgCount(argv)
  /\ pdf_path' = PyStr(argv[2])
  /\ calls' = calls + 1
  /\ pc' = "in_extract_text"
  /\ UNCHANGED <<argv, text, e, result, stdout, exit_status>>

\* Variant: a blank result is retried once instead of being reported.
ExtractTextReturns_Retry ==
  /\ pc = "in_extract_text"
  /\ \E t \in ReturnValues :
       /\ text' = t
       /\ IF IsBlank(t) /\ calls < 2
            THEN /\ calls' = calls + 1
                 /\ pc' = "in_extract_text"
                 /\ UNCHANGED result
            ELSE /\ result' = ResultOnReturn(t)
                 /\ pc' = "print"
                 /\ UNCHANGED calls
  /\ UNCHANGED <<argv, pdf_path, e, stdout, exit_status>>

\* extract_text returns; extract_pdf_text runs to its return.
ExtractTextReturns ==
  /\ pc = "in_extract_text"
  /\ \E t \in ReturnValues :
       /\ text' = t
       /\ result' = ResultOnReturn(t)
  /\ pc' = "print"
  /\ UNCHANGED <<argv, pdf_path, e, stdout, exit_status, calls>>

\* Variant: no except clause, the exception ends the process with a traceback.
ExtractTextRaises_Uncaught ==
  /\ pc = "in_extract_text"
  /\ \E exc \in Exceptions : e' = exc
  /\ exit_status' = <<1>>
  /\ pc' = "exited"
  /\ UNCHANGED <<argv, pdf_path, text, result, stdout, calls>>

\* extract_text raises; the except clause builds the result.
ExtractTextRaises ==
  /\ pc = "in_extract_text"
  /\ \E exc \in Exceptions :
       /\ e' = exc
       /\ result' = FailureResult(exc)
  /\ pc' = "print"
  /\ UNCHANGED <<argv, pdf_path, text, stdout, exit_status, calls>>

\* Variant: the result is printed twice.
MainPrint_Twice ==
  /\ pc = "print"
  /\ stdout' = Append(Append(stdout, json_dumps(result)), json_dumps(result))
  /\ pc' = "exit"
  /\ UNCHANGED <<argv, pdf_path, text, e, result, exit_status, calls>>

\* main, line 69.
MainPrint ==
  /\ pc = "print"
  /\ stdout' = Append(stdout, json_dumps(result))
  /\ pc' = "exit"
  /\ UNCHANGED <<argv, pdf_path, text, e, result, exit_status, calls>>

\* main, line 72.
MainExit ==
  /\ pc = "exit"
  /\ exit_status' = <<ExitCode(result)>>
  /\ pc' = "exited"
  /\ UNCHANGED <<argv, pdf_path, text, e, result, stdout, calls>>

Next ==
  \/ MainUsage
  \/ MainUsagePrint
  \/ MainUsageExit
  \/ MainCallExtract
  \/ ExtractTextReturns
  \/ ExtractTextRaises
  \/ MainPrint
  \/ MainExit

Spec == Init /\ [][Next]_vars

\* The interpreter runs a statement that is enabled; extract_text is taken
\* to return or raise eventually (the call blocks, section 5 of the spec).
FairSpec == Spec /\ WF_vars(Next)

(***************************************************************************)
(* Properties.                                                             *)
(***************************************************************************)
Exited == exit_status # <<>>

\* The result has been built (the program is at or past its print).
HasResult == pc \in {"usage_print", "usage_exit", "print", "exit", "exited"}

AllWhitespace(s) == \A i \in 1..Len(s) : s[i] \in Whitespace

\* C1: every run writes exactly one JSON record to standard output before it
\* exits, whatever the argument count and whatever extract_text did: never
\* more than one record is written, and an exited process has written one,
\* an object with the keys success, error and text.
C1_ExactlyOneRecord ==
  /\ Len(stdout) <= 1
  /\ Exited =>
       /\ Len(stdout) = 1
       /\ {"success", "error", "text"} \subseteq DOMAIN stdout[1]
       /\ stdout[1]["success"].json \in {"true", "false"}

C1_Witness == Exited /\ e # Unbound /\ Len(stdout) = 1

\* C2: an exception raised by extract_text is caught and becomes the dict
\* {success: False, error: "PDF extraction failed: " + message, text: ""};
\* the process does not end without that record on standard output.
C2_ExtractorErrorCaught ==
  e # Unbound =>
    /\ pc \in {"print", "exit", "exited"}
    /\ result =
         [success |-> PyBool(FALSE),
          error |-> PyStr(FailedPrefix
                            \o (IF e.args = <<>> THEN <<>> ELSE e.args[1])),
          text |-> PyStr(<<>>)]
    /\ Exited =>
         /\ Len(stdout) = 1
         /\ stdout[1]["success"] = [json |-> "false"]
         /\ stdout[1]["error"] = [json |-> "string", val |-> result["error"].val]
         /\ stdout[1]["text"] = [json |-> "string", val |-> <<>>]

C2_Witness == Exited /\ e # Unbound /\ e.args = <<<<"x">>>>

\* C3: the exit status is 0 exactly when the record on standard output has
\* success = true, and 1 otherwise: after a wrong argument count, after an
\* exception of extract_text, after an empty or whitespace-only text.
C3_ExitStatus ==
  Exited =>
    /\ Len(stdout) = 1
    /\ exit_status[1] \in {0, 1}
    /\ (exit_status[1] = 0) <=> (stdout[1]["success"].json = "true")
    /\ Len(argv) # 2 => exit_status[1] = 1
    /\ e # Unbound => exit_status[1] = 1
    /\ (text = PyNone \/ (text.type = "str" /\ AllWhitespace(text.val)))
         => exit_status[1] = 1

C3_Witness == Exited /\ exit_status[1] = 0

\* C4: with an argument count other than one path (none, or two or more) the
\* program writes the usage record, exits with 1 and never calls
\* extract_text.
C4_UsageError ==
  Len(argv) - 1 # 1 =>
    /\ calls = 0
    /\ text = Unbound /\ e = Unbound /\ pdf_path = Unbound
    /\ Exited =>
         /\ exit_status = <<1>>
         /\ stdout =
              <<[success |-> [json |-> "false"],
                 error |-> [json |-> "string", val |-> UsageMsg],
                 text |-> [json |-> "string", val |-> <<>>]]>>

C4_Witness == Exited /\ Len(argv) = 3

\* C5: when extract_text returns None, "" or whitespace only, the result is
\* {success: False, error: "No text content found in PDF", text: ""}; no
\* result has success = True with an empty text.
C5_EmptyIsFailure ==
  /\ (text = PyNone \/ (text.type = "str" /\ AllWhitespace(text.val))) =>
       result =
         [success |-> PyBool(FALSE), error |-> PyStr(NoTextMsg),
          text |-> PyStr(<<>>)]
  /\ (HasResult /\ result["success"].val) => result["text"].val # <<>>

C5_Witness == Exited /\ text = PyStr(<<" ", "\f">>)

\* C6: when extract_text returns a text with a non-whitespace character, the
\* result has success = True, error = None, a text that is the returned
\* text without its leading and trailing whitespace (it starts and ends
\* with a non-whitespace character and the returned text is whitespace,
\* then it, then whitespace), and length = the number of characters of
\* the text, which is at least 1.
C6_SuccessIsTrimmed ==
  (text.type = "str" /\ ~AllWhitespace(text.val)) =>
    /\ DOMAIN result = {"success", "text", "length", "error"}
    /\ result["success"] = PyBool(TRUE)
    /\ result["error"] = PyNone
    /\ result["text"].type = "str"
    /\ LET t == result["text"].val
       IN /\ Len(t) >= 1
          /\ t[1] \notin Whitespace
          /\ t[Len(t)] \notin Whitespace
          /\ \E i \in 0..Len(text.val) :
               /\ i + Len(t) <= Len(text.val)
               /\ SubSeq(text.val, i + 1, i + Len(t)) = t
               /\ AllWhitespace(SubSeq(text.val, 1, i))
               /\ AllWhitespace(SubSeq(text.val, i + Len(t) + 1, Len(text.val)))
          /\ result["length"] = PyInt(Len(t))

C6_Witness == Exited /\ text = PyStr(<<" ", "a", "\f">>)

\* C7: every record on standard output has the ExtractionResult shape: error
\* is a string exactly when success is false (and null otherwise), text is ""
\* when success is false, and the key length is there exactly when success
\* is true.
C7_RecordShape ==
  \A i \in 1..Len(stdout) :
    LET r == stdout[i]
    IN /\ {"success", "error", "text"} \subseteq DOMAIN r
       /\ r["success"].json \in {"true", "false"}
       /\ (r["error"].json = "string") <=> (r["success"].json = "false")
       /\ (r["error"].json = "null") <=> (r["success"].json = "true")
       /\ r["success"].json = "false" => r["text"] = [json |-> "string", val |-> <<>>]
       /\ ("length" \in DOMAIN r) <=> (r["success"].json = "true")

C7_Witness == Len(stdout) = 1 /\ Len(argv) = 1

\* C9: extract_text is called at most once in a run, exactly once when one
\* path is given and never again after a raise or an empty result; once the
\* call has returned or raised, the process terminates, with its record
\* written before it exits.
C9_OneCallThenExit ==
  /\ [](calls <= 1)
  /\ []((Len(argv) = 2 /\ pc # "main") => calls = 1)
  /\ [](Exited => Len(stdout) = 1)
  /\ (calls = 1 /\ pc = "print") ~> (pc = "exited" /\ Exited /\ Len(stdout) = 1)

C9_Witness ==
  /\ Exited /\ calls = 1
  /\ text = PyStr(<<"\f">>)

\* C10: the three failures are told apart by the error text alone: the error
\* of an exception starts with "PDF extraction failed: " whatever the
\* message, the empty one included, so that it is neither the empty-result
\* message nor the usage message, and these two differ.
C10_ErrorsDistinct ==
  /\ NoTextMsg # UsageMsg
  /\ HasResult =>
       LET err == result["error"]
       IN /\ e # Unbound =>
               /\ err.type = "str"
               /\ Len(err.val) >= Len(FailedPrefix)
               /\ SubSeq(err.val, 1, Len(FailedPrefix)) = FailedPrefix
               /\ err.val \notin {NoTextMsg, UsageMsg}
          /\ err = PyStr(UsageMsg) <=> Len(argv) # 2
          /\ err = PyStr(NoTextMsg) <=>
               (text = PyNone \/ (text.type = "str" /\ AllWhitespace(text.val)))

C10_Witness == Exited /\ e # Unbound /\ e.args = <<NoTextMsg>>
====
